---- MODULE Spec2Model ----
(***************************************************************************)
(* Model of accumulator.Batch (src/accumulator/batch.go): the batch that   *)
(* correlates Lambda invocations with the data of the APM agent and of the *)
(* logs API, byte for byte.  Byte slices and Go strings that the code      *)
(* inspects are sequences of one-character strings; request IDs, which the *)
(* code only uses as map keys, are strings.  sync.RWMutex b.mu is held for *)
(* the whole of every method, so every method is one atomic action.        *)
(***************************************************************************)
EXTENDS Integers, Sequences, FiniteSets, TLC

VARIABLES
    maxSize,                      \* Batch.maxSize
    maxAge,                       \* Batch.maxAge
    metadataBytes,                \* Batch.metadataBytes
    buf,                          \* Batch.buf, the unread bytes of the buffer
    capacity,                     \* cap of the array Batch.buf writes to
    count,                        \* Batch.count
    age,                          \* Batch.age; zeroTime when unset
    invocations,                  \* Batch.invocations: request ID -> Invocation
    currentlyExecutingRequestID,  \* Batch.currentlyExecutingRequestID
    now,                          \* the wall clock read by time.Now and time.Since
    snap,                         \* the APMData last returned by ToAPMData;
                                  \* pending: no Reset has followed it yet
    last,                         \* the last call: method, returned error/value
    txnOut,                       \* history: per registered invocation, the number
                                  \* (capped at 2) of appended transaction entries
                                  \* whose id is the invocation's TransactionID
    firstMeta                     \* history: first metadata lines supplied/captured

vars == <<maxSize, maxAge, metadataBytes, buf, capacity, count, age, invocations,
          currentlyExecutingRequestID, now, snap, last, txnOut, firstMeta>>

-----------------------------------------------------------------------------
(* Bounds of the model *)

MaxBatchSize == 2   \* largest configured maxSize
MaxBatchAge == 1    \* largest configured maxAge (clock ticks)
MaxTime == 2        \* the clock stops advancing here
MaxEvents == 2      \* most event lines in one agent request body

-----------------------------------------------------------------------------
(* Bytes *)

Q == "\""
NL == "\n"

Min(S) == CHOOSE x \in S : \A y \in S : x <= y

HasPrefix(s, p) == Len(s) >= Len(p) /\ SubSeq(s, 1, Len(p)) = p

\* Position of the first occurrence of p in s, 0 if there is none.
IndexOf(s, p) ==
    LET at == {i \in 1..(Len(s) - Len(p) + 1) : SubSeq(s, i, i + Len(p) - 1) = p}
    IN IF at = {} THEN 0 ELSE Min(at)

\* bytes.Split(raw, "\n"): never empty, one more line than there are newlines.
RECURSIVE SplitAt(_, _, _)
SplitAt(raw, from, seps) ==
    IF seps = {} THEN <<SubSeq(raw, from, Len(raw))>>
    ELSE LET i == Min(seps)
         IN <<SubSeq(raw, from, i - 1)>> \o SplitAt(raw, i + 1, seps \ {i})

Split(raw) == SplitAt(raw, 1, {i \in 1..Len(raw) : raw[i] = NL})

\* The ndjson body made of the given lines.
RECURSIVE Join(_)
Join(lines) ==
    IF Len(lines) = 0 THEN <<>>
    ELSE IF Len(lines) = 1 THEN lines[1]
    ELSE lines[1] \o <<NL>> \o Join(Tail(lines))

\* The string value that follows the first "key":" in line, <<>> if none.
JsonStr(line, key) ==
    LET pat == <<Q>> \o key \o <<Q, ":", Q>>
        i == IndexOf(line, pat)
    IN IF i = 0 THEN <<>>
       ELSE LET rest == SubSeq(line, i + Len(pat), Len(line))
                e == IndexOf(rest, <<Q>>)
            IN IF e = 0 THEN <<>> ELSE SubSeq(rest, 1, e - 1)

-----------------------------------------------------------------------------
(* Values the callers supply *)

RequestIDs == {"R1", "R2"}
NoRequest == ""

T1 == <<"T", "1">>
T2 == <<"T", "2">>
Tr1 == <<"a", "1">>
Tr2 == <<"a", "2">>
NoID == <<>>

\* (transactionID, traceID) pairs an agent announces
AgentInits == {<<NoID, NoID>>, <<T1, Tr1>>, <<T2, Tr2>>}

Success == <<"s", "u", "c", "c", "e", "s", "s">>
Timeout == <<"t", "i", "m", "e", "o", "u", "t">>
Statuses == {Success, Timeout}

Str_transaction == <<"t", "r", "a", "n", "s", "a", "c", "t", "i", "o", "n">>
Str_id == <<"i", "d">>
Str_trace_id == <<"t", "r", "a", "c", "e", "_", "i", "d">>
Str_outcome == <<"o", "u", "t", "c", "o", "m", "e">>

\* {"meta":1} and {"meta":2}
M1 == <<"{", Q, "m", "e", "t", "a", Q, ":", "1", "}">>
M2 == <<"{", Q, "m", "e", "t", "a", Q, ":", "2", "}">>
MetadataLines == {M1, M2}

\* {"transaction":{"id":"<id>"}}
TxnLine(id) ==
    <<"{", Q>> \o Str_transaction \o <<Q, ":", "{", Q>> \o Str_id
        \o <<Q, ":", Q>> \o id \o <<Q, "}", "}">>

\* {"metricset":{}}: sent by agents, and built from the platform's logs
MetricsetLine ==
    <<"{", Q, "m", "e", "t", "r", "i", "c", "s", "e", "t", Q, ":", "{", "}", "}">>

\* The empty line that follows the newline closing an ndjson body
EmptyLine == <<>>

EventLines == {TxnLine(T1), TxnLine(T2), MetricsetLine, EmptyLine}
LambdaLines == {MetricsetLine}

SeqsUpTo(S, n) == UNION {[1..k -> S] : k \in 0..n}

\* Request bodies: a metadata line out of metas and at most n of the events
Bodies(metas, events, n) ==
    {Join(<<m>> \o evs) : m \in metas, evs \in SeqsUpTo(events, n)}

\* Every body of the model; the empty metadata line is that of an empty body
AgentBodies == Bodies(MetadataLines \cup {<<>>}, EventLines, MaxEvents)

-----------------------------------------------------------------------------
(* Errors *)

Nil == "nil"
ErrMetadataUnavailable == "ErrMetadataUnavailable"
ErrBatchFull == "ErrBatchFull"
ErrInvalidEncoding == "ErrInvalidEncoding"
ErrNoInvocation == "invocation does not exist"
ErrCorrupt == "corrupt stream"

zeroTime == 0

-----------------------------------------------------------------------------
(* Payload codec.  A gzip or deflate stream is its header followed by the *)
(* payload; decoding checks and strips the header.                        *)

Identity == "identity"
Gzip == "gzip"
Deflate == "deflate"
Brotli == "br"
Encodings == {Identity, Gzip, Deflate, Brotli}

StreamHeader(encoding) ==
    IF encoding = Gzip THEN <<"GZ">>
    ELSE IF encoding = Deflate THEN <<"ZL">>
    ELSE IF encoding = Brotli THEN <<"BR">>
    ELSE <<>>

\* What a client sends for a body under an encoding.
Encode(raw, encoding) == StreamHeader(encoding) \o raw

GetUncompressedBytes(data, encoding) ==
    IF encoding = Identity THEN [raw |-> data, err |-> Nil]
    ELSE IF encoding \in {Gzip, Deflate}
    THEN IF HasPrefix(data, StreamHeader(encoding))
         THEN [raw |-> SubSeq(data, Len(StreamHeader(encoding)) + 1, Len(data)),
               err |-> Nil]
         ELSE [raw |-> <<>>, err |-> ErrCorrupt]
    ELSE [raw |-> <<>>, err |-> ErrInvalidEncoding]

\* gjson.GetBytes(line, "transaction.id").Str: the string member id of the
\* top-level member transaction, "" when there is none.
gjsonTransactionID(line) ==
    LET open == <<"{", Q>> \o Str_transaction \o <<Q, ":", "{">>
    IN IF HasPrefix(line, open)
       THEN JsonStr(SubSeq(line, Len(open), Len(line)), Str_id)
       ELSE <<>>

findEventType(body) ==
    LET qs == {i \in 1..Len(body) : body[i] = Q \/ body[i] = "'"}
    IN IF qs = {} THEN <<>>
       ELSE LET i == Min(qs)
                quote == body[i]
                key == SubSeq(body, i + 1, Len(body))
                end == IndexOf(key, <<quote>>)
            IN IF end = 0 THEN <<>> ELSE SubSeq(key, 1, end - 1)

\* APMData as the receiver passes it on
Plain(bodies) == {[Data |-> body, ContentEncoding |-> Identity] : body \in bodies}

Encoded(bodies) ==
    {[Data |-> Encode(body, e), ContentEncoding |-> e] :
        body \in bodies, e \in Encodings \ {Identity}}

APMDatas == Plain(AgentBodies) \cup Encoded(AgentBodies)

\* The functions above, tabulated once over the values they are applied to
decoded == [a \in APMDatas |-> GetUncompressedBytes(a.Data, a.ContentEncoding)]
splitLines == [a \in APMDatas |-> Split(decoded[a].raw)]
eventTypeOf == [l \in EventLines |-> findEventType(l)]
txnIDOf == [l \in EventLines |-> gjsonTransactionID(l)]

-----------------------------------------------------------------------------
(* Invocation *)

NewInvocation(requestID) ==
    [RequestID |-> requestID, TransactionID |-> NoID, TraceID |-> NoID,
     TransactionObserved |-> FALSE]

NeedProxyTransaction(inc) ==
    inc.TransactionID # NoID /\ ~inc.TransactionObserved

\* {"transaction":{"id":"<TransactionID>","trace_id":"<TraceID>","outcome":"<status>"}}
ProxyTxn(inc, status) ==
    <<"{", Q>> \o Str_transaction \o <<Q, ":", "{", Q>> \o Str_id
        \o <<Q, ":", Q>> \o inc.TransactionID \o <<Q, ",", Q>> \o Str_trace_id
        \o <<Q, ":", Q>> \o inc.TraceID \o <<Q, ",", Q>> \o Str_outcome
        \o <<Q, ":", Q>> \o status \o <<Q, "}", "}">>

\* Invocation.Finalize: the proxy transaction, or nothing.
Finalize(inc, status) ==
    IF NeedProxyTransaction(inc)
    THEN [some |-> TRUE, bytes |-> ProxyTxn(inc, status)]
    ELSE [some |-> FALSE, bytes |-> <<>>]

-----------------------------------------------------------------------------
(* bytes.Buffer.  ToAPMData hands out b.buf.Bytes(), a slice of the        *)
(* buffer's array, not a copy.  snap.view is what the holder of that slice *)
(* reads now and snap.alias whether the buffer still writes to the array   *)
(* the slice points into.  A write that fits the array's capacity is done  *)
(* in place; any other moves the buffer to a new array (Buffer.grow): of   *)
(* 64 bytes for the first write of at most 64 bytes, else of twice the old *)
(* capacity or, if that is too little, of just what the write needs.       *)

NoSnapshot ==
    [taken |-> FALSE, alias |-> FALSE, pending |-> FALSE, orig |-> <<>>,
     view |-> <<>>]

\* The batch as the operators below pass it along.
Batch ==
    [metadataBytes |-> metadataBytes, buf |-> buf, capacity |-> capacity,
     count |-> count, age |-> age, invocations |-> invocations, snap |-> snap]

\* view with the bytes p written at offset m of the array
Overlay(view, m, p) ==
    [i \in 1..Len(view) |->
        IF i > m /\ i <= m + Len(p) THEN p[i - m] ELSE view[i]]

\* b.buf.Write(p) and b.buf.WriteByte(c)
bufWrite(b, p) ==
    LET m == Len(b.buf)
        n == Len(p)
        grown == IF b.capacity = 0 /\ n <= 64 THEN 64
                 ELSE IF m + n < 2 * b.capacity THEN 2 * b.capacity
                 ELSE m + n
        appended == [b EXCEPT !.buf = @ \o p]
    IN IF m + n > b.capacity
       THEN [appended EXCEPT !.capacity = grown, !.snap.alias = FALSE]
       ELSE IF b.snap.alias
       THEN [appended EXCEPT !.snap.view = Overlay(@, m, p)]
       ELSE appended

\* Truncate replaced by b.buf.Reset(): the metadata line is lost too
bufTruncateAll(b, n) == [b EXCEPT !.buf = <<>>]

\* b.buf.Truncate(n): the array and its bytes stay
bufTruncate(b, n) == [b EXCEPT !.buf = SubSeq(@, 1, n)]

-----------------------------------------------------------------------------
(* Batch: the unexported methods *)

\* addData refusing only when count exceeds maxSize
addDataOffByOne(b, data) ==
    IF b.metadataBytes = 0 THEN [b |-> b, err |-> ErrMetadataUnavailable]
    ELSE IF b.count > maxSize THEN [b |-> b, err |-> ErrBatchFull]
    ELSE LET w == bufWrite(bufWrite(b, <<NL>>), data)
         IN [b |-> [w EXCEPT !.age = IF b.count = 0 THEN now ELSE @,
                             !.count = @ + 1],
             err |-> Nil]

\* addData looking at the size before the metadata
addDataSizeFirst(b, data) ==
    IF b.count = maxSize THEN [b |-> b, err |-> ErrBatchFull]
    ELSE IF b.metadataBytes = 0 THEN [b |-> b, err |-> ErrMetadataUnavailable]
    ELSE LET w == bufWrite(bufWrite(b, <<NL>>), data)
         IN [b |-> [w EXCEPT !.age = IF b.count = 0 THEN now ELSE @,
                             !.count = @ + 1],
             err |-> Nil]

\* addData ending each entry with the newline instead of starting it with one
addDataNewlineAfter(b, data) ==
    IF b.metadataBytes = 0 THEN [b |-> b, err |-> ErrMetadataUnavailable]
    ELSE IF b.count = maxSize THEN [b |-> b, err |-> ErrBatchFull]
    ELSE LET w == bufWrite(bufWrite(b, data), <<NL>>)
         IN [b |-> [w EXCEPT !.age = IF b.count = 0 THEN now ELSE @,
                             !.count = @ + 1],
             err |-> Nil]

\* addData setting the age at every entry
addDataAgeAlways(b, data) ==
    IF b.metadataBytes = 0 THEN [b |-> b, err |-> ErrMetadataUnavailable]
    ELSE IF b.count = maxSize THEN [b |-> b, err |-> ErrBatchFull]
    ELSE LET w == bufWrite(bufWrite(b, <<NL>>), data)
         IN [b |-> [w EXCEPT !.age = now, !.count = @ + 1], err |-> Nil]

addData(b, data) ==
    IF b.metadataBytes = 0 THEN [b |-> b, err |-> ErrMetadataUnavailable]
    ELSE IF b.count = maxSize THEN [b |-> b, err |-> ErrBatchFull]
    ELSE LET w == bufWrite(bufWrite(b, <<NL>>), data)
         IN [b |-> [w EXCEPT !.age = IF b.count = 0 THEN now ELSE @,
                             !.count = @ + 1],
             err |-> Nil]

Remove(f, k) == [x \in DOMAIN f \ {k} |-> f[x]]

\* finalizeInvocation deleting the invocation only when nothing failed
finalizeInvocationKeepsOnError(b, reqID, status) ==
    IF reqID \notin DOMAIN b.invocations
    THEN [b |-> b, err |-> ErrNoInvocation]
    ELSE LET proxyTxn == Finalize(b.invocations[reqID], status)
             r == IF proxyTxn.some THEN addData(b, proxyTxn.bytes)
                  ELSE [b |-> b, err |-> Nil]
         IN IF r.err # Nil THEN r
            ELSE [b |-> [r.b EXCEPT !.invocations = Remove(@, reqID)], err |-> Nil]

\* finalizeInvocation taking an unknown request id for one already finalized
finalizeInvocationIgnoresUnknown(b, reqID, status) ==
    IF reqID \notin DOMAIN b.invocations
    THEN [b |-> b, err |-> Nil]
    ELSE LET proxyTxn == Finalize(b.invocations[reqID], status)
             r == IF proxyTxn.some THEN addData(b, proxyTxn.bytes)
                  ELSE [b |-> b, err |-> Nil]
         IN [b |-> [r.b EXCEPT !.invocations = Remove(@, reqID)], err |-> r.err]

finalizeInvocation(b, reqID, status) ==
    IF reqID \notin DOMAIN b.invocations
    THEN [b |-> b, err |-> ErrNoInvocation]
    ELSE LET proxyTxn == Finalize(b.invocations[reqID], status)
             r == IF proxyTxn.some THEN addData(b, proxyTxn.bytes)
                  ELSE [b |-> b, err |-> Nil]
         IN [b |-> [r.b EXCEPT !.invocations = Remove(@, reqID)], err |-> r.err]

\* The metadata line written by every call
setMetadataAlways(b, line) ==
    [bufWrite(b, line) EXCEPT !.metadataBytes = Len(line)]

\* AddAgentData: "Set metadata if not already set"
setMetadata(b, line) ==
    IF b.metadataBytes = 0
    THEN [bufWrite(b, line) EXCEPT !.metadataBytes = Len(line)]
    ELSE b

\* The loop of AddAgentData over data[i:], for the invocation inc = invocations[id]
RECURSIVE agentEvents(_, _, _, _)

\* The loop noting the observed transaction without the continue
agentEventsKeepsObserved(b, id, data, i) ==
    IF i > Len(data) THEN [b |-> b, err |-> Nil]
    ELSE LET inc == b.invocations[id]
             observed ==
                 /\ NeedProxyTransaction(inc)
                 /\ eventTypeOf[data[i]] = Str_transaction
                 /\ txnIDOf[data[i]] # NoID
                 /\ inc.TransactionID = txnIDOf[data[i]]
             seen == IF observed
                     THEN [b EXCEPT !.invocations[id].TransactionObserved = TRUE]
                     ELSE b
             r == addData(seen, data[i])
         IN IF r.err # Nil THEN r ELSE agentEvents(r.b, id, data, i + 1)

agentEvents(b, id, data, i) ==
    IF i > Len(data) THEN [b |-> b, err |-> Nil]
    ELSE LET inc == b.invocations[id]
             observed ==
                 /\ NeedProxyTransaction(inc)
                 /\ eventTypeOf[data[i]] = Str_transaction
                 /\ txnIDOf[data[i]] # NoID
                 /\ inc.TransactionID = txnIDOf[data[i]]
         IN IF observed
            THEN agentEvents(
                     [b EXCEPT !.invocations[id].TransactionObserved = TRUE],
                     id, data, i + 1)
            ELSE LET r == addData(b, data[i])
                 IN IF r.err # Nil THEN r ELSE agentEvents(r.b, id, data, i + 1)

\* The loop left after the first invocation
shutdownLoopOnce(b, order, i, status) ==
    IF i > Len(order) THEN [b |-> b, err |-> Nil]
    ELSE finalizeInvocation(b, order[i], status)

\* The range loop of OnShutdown, visiting the map in the given order
RECURSIVE shutdownLoop(_, _, _, _)
shutdownLoop(b, order, i, status) ==
    IF i > Len(order) THEN [b |-> b, err |-> Nil]
    ELSE LET r == finalizeInvocation(b, order[i], status)
         IN IF r.err # Nil THEN r ELSE shutdownLoop(r.b, order, i + 1, status)

\* The orders in which a range over a map with the keys S can visit it
Orders(S) ==
    {o \in [1..Cardinality(S) -> S] : \A i, j \in DOMAIN o : o[i] = o[j] => i = j}

\* The threshold without the factor 0.9
sizeThresholdFull == maxSize

\* int(float64(maxSize) * maxSizeThreshold), maxSizeThreshold = 0.9
sizeThreshold == (maxSize * 9) \div 10

-----------------------------------------------------------------------------
(* History *)

\* n is count as the call found it
Called(op, err) == [op |-> op, err |-> err, ret |-> FALSE, n |-> count]

\* The first n bytes of a buffer (all of it when it is shorter)
Prefix(bytes, n) == SubSeq(bytes, 1, IF n < Len(bytes) THEN n ELSE Len(bytes))

RECURSIVE IsSubsequence(_, _)
IsSubsequence(a, b) ==
    IF a = <<>> THEN TRUE
    ELSE IF b = <<>> THEN FALSE
    ELSE IF Head(a) = Head(b) THEN IsSubsequence(Tail(a), Tail(b))
    ELSE IsSubsequence(a, Tail(b))

\* The entries (lines after the metadata line) of a buffer
Entries(bytes) == Tail(Split(bytes))

IsTxnOf(line, id) ==
    id # NoID /\ eventTypeOf[line] = Str_transaction /\ txnIDOf[line] = id

Capped(n) == IF n > 2 THEN 2 ELSE n

-----------------------------------------------------------------------------
(* Batch: construction and the exported methods *)

NewBatch(size, maturity) ==
    /\ maxSize = size
    /\ maxAge = maturity
    /\ metadataBytes = 0
    /\ buf = <<>>
    /\ capacity = 0
    /\ count = 0
    /\ age = zeroTime
    /\ invocations = <<>>
    /\ currentlyExecutingRequestID = NoRequest
    /\ now = 1
    /\ snap = NoSnapshot
    /\ last = [op |-> "NewBatch", err |-> Nil, ret |-> FALSE, n |-> 0]
    /\ txnOut = [r \in RequestIDs |-> 0]
    /\ firstMeta = [supplied |-> <<>>, accepted |-> <<>>]

Install(b) ==
    /\ metadataBytes' = b.metadataBytes
    /\ buf' = b.buf
    /\ capacity' = b.capacity
    /\ count' = b.count
    /\ age' = b.age
    /\ invocations' = b.invocations
    /\ snap' = b.snap

\* RegisterInvocation keeping the pivot of an invocation still registered
RegisterInvocationKeepsPivot(requestID) ==
    /\ invocations' =
           [x \in DOMAIN invocations \cup {requestID} |->
               IF x = requestID THEN NewInvocation(requestID) ELSE invocations[x]]
    /\ currentlyExecutingRequestID' =
           IF currentlyExecutingRequestID \in DOMAIN invocations
           THEN currentlyExecutingRequestID ELSE requestID
    /\ last' = Called("RegisterInvocation", Nil)
    /\ txnOut' = [txnOut EXCEPT ![requestID] = 0]
    /\ UNCHANGED <<maxSize, maxAge, metadataBytes, buf, capacity, count, age, now, snap,
                   firstMeta>>

RegisterInvocation(requestID) ==
    /\ invocations' =
           [x \in DOMAIN invocations \cup {requestID} |->
               IF x = requestID THEN NewInvocation(requestID) ELSE invocations[x]]
    /\ currentlyExecutingRequestID' = requestID
    /\ last' = Called("RegisterInvocation", Nil)
    /\ txnOut' = [txnOut EXCEPT ![requestID] = 0]
    /\ UNCHANGED <<maxSize, maxAge, metadataBytes, buf, capacity, count, age, now, snap,
                   firstMeta>>

\* OnAgentInit creating the invocation it does not find
OnAgentInitCreates(transactionID, traceID) ==
    LET id == currentlyExecutingRequestID
    IN /\ invocations' =
              [x \in DOMAIN invocations \cup {id} |->
                  IF x = id
                  THEN [RequestID |-> id, TransactionID |-> transactionID,
                        TraceID |-> traceID,
                        TransactionObserved |->
                            id \in DOMAIN invocations
                            /\ invocations[id].TransactionObserved]
                  ELSE invocations[x]]
       /\ last' = Called("OnAgentInit", Nil)
       /\ UNCHANGED <<maxSize, maxAge, metadataBytes, buf, capacity, count, age,
                      currentlyExecutingRequestID, now, snap, txnOut, firstMeta>>

OnAgentInit(transactionID, traceID) ==
    LET id == currentlyExecutingRequestID
    IN IF id \notin DOMAIN invocations
       THEN /\ last' = Called("OnAgentInit", ErrNoInvocation)
            /\ UNCHANGED <<maxSize, maxAge, metadataBytes, buf, capacity, count, age,
                           invocations, currentlyExecutingRequestID, now, snap,
                           txnOut, firstMeta>>
       ELSE /\ invocations' = [invocations EXCEPT ![id].TransactionID = transactionID,
                                                  ![id].TraceID = traceID]
            /\ last' = Called("OnAgentInit", Nil)
            /\ txnOut' = IF invocations[id].TransactionID = transactionID
                         THEN txnOut ELSE [txnOut EXCEPT ![id] = 0]
            /\ UNCHANGED <<maxSize, maxAge, metadataBytes, buf, capacity, count, age,
                           currentlyExecutingRequestID, now, snap, firstMeta>>

\* AddAgentData going on with the empty result of a failed decoding
AddAgentDataIgnoresDecodeError(apmData) ==
    LET dec == decoded[apmData]
        data == splitLines[apmData]
        id == currentlyExecutingRequestID
        b0 == Batch
        b1 == setMetadata(b0, data[1])
        r == IF Len(data) = 0 THEN [b |-> b0, err |-> Nil]
             ELSE IF id \notin DOMAIN invocations
             THEN [b |-> b0, err |-> ErrNoInvocation]
             ELSE agentEvents(b1, id, data, 2)
        new == IF r.b.count = count THEN <<>>
               ELSE Tail(Split(SubSeq(r.b.buf, Len(b1.buf) + 1, Len(r.b.buf))))
        own == {i \in 1..Len(new) : IsTxnOf(new[i], invocations[id].TransactionID)}
    IN /\ Install(r.b)
       /\ last' = Called("AddAgentData", r.err)
       /\ txnOut' = IF id \in DOMAIN invocations
                    THEN [txnOut EXCEPT ![id] = Capped(@ + Cardinality(own))]
                    ELSE txnOut
       /\ firstMeta' =
              IF dec.err # Nil \/ data[1] = <<>> THEN firstMeta
              ELSE [supplied |-> IF firstMeta.supplied = <<>> THEN data[1]
                                 ELSE firstMeta.supplied,
                    accepted |-> IF firstMeta.accepted = <<>>
                                    /\ id \in DOMAIN invocations
                                 THEN data[1] ELSE firstMeta.accepted]
       /\ UNCHANGED <<maxSize, maxAge, currentlyExecutingRequestID, now>>

\* AddAgentData undoing what it did when an event is refused
AddAgentDataRollsBack(apmData) ==
    LET dec == decoded[apmData]
        data == splitLines[apmData]
        id == currentlyExecutingRequestID
        b0 == Batch
        b1 == setMetadata(b0, data[1])
        done == IF dec.err # Nil THEN [b |-> b0, err |-> dec.err]
                ELSE IF Len(data) = 0 THEN [b |-> b0, err |-> Nil]
                ELSE IF id \notin DOMAIN invocations
                THEN [b |-> b0, err |-> ErrNoInvocation]
                ELSE agentEvents(b1, id, data, 2)
        r == IF done.err = Nil THEN done ELSE [b |-> b0, err |-> done.err]
        new == IF r.b.count = count THEN <<>>
               ELSE Tail(Split(SubSeq(r.b.buf, Len(b1.buf) + 1, Len(r.b.buf))))
        own == {i \in 1..Len(new) : IsTxnOf(new[i], invocations[id].TransactionID)}
    IN /\ Install(r.b)
       /\ last' = Called("AddAgentData", r.err)
       /\ txnOut' = IF id \in DOMAIN invocations
                    THEN [txnOut EXCEPT ![id] = Capped(@ + Cardinality(own))]
                    ELSE txnOut
       /\ firstMeta' =
              IF dec.err # Nil \/ data[1] = <<>> THEN firstMeta
              ELSE [supplied |-> IF firstMeta.supplied = <<>> THEN data[1]
                                 ELSE firstMeta.supplied,
                    accepted |-> IF firstMeta.accepted = <<>>
                                    /\ id \in DOMAIN invocations
                                 THEN data[1] ELSE firstMeta.accepted]
       /\ UNCHANGED <<maxSize, maxAge, currentlyExecutingRequestID, now>>

AddAgentData(apmData) ==
    LET dec == decoded[apmData]
        data == splitLines[apmData]
        id == currentlyExecutingRequestID
        b0 == Batch
        b1 == setMetadata(b0, data[1])
        r == IF dec.err # Nil THEN [b |-> b0, err |-> dec.err]
             ELSE IF Len(data) = 0 THEN [b |-> b0, err |-> Nil]
             ELSE IF id \notin DOMAIN invocations
             THEN [b |-> b0, err |-> ErrNoInvocation]
             ELSE agentEvents(b1, id, data, 2)
        \* the entries this call appended
        new == IF r.b.count = count THEN <<>>
               ELSE Tail(Split(SubSeq(r.b.buf, Len(b1.buf) + 1, Len(r.b.buf))))
        own == {i \in 1..Len(new) : IsTxnOf(new[i], invocations[id].TransactionID)}
    IN /\ Install(r.b)
       /\ last' = Called("AddAgentData", r.err)
       /\ txnOut' = IF id \in DOMAIN invocations
                    THEN [txnOut EXCEPT ![id] = Capped(@ + Cardinality(own))]
                    ELSE txnOut
       /\ firstMeta' =
              IF dec.err # Nil \/ data[1] = <<>> THEN firstMeta
              ELSE [supplied |-> IF firstMeta.supplied = <<>> THEN data[1]
                                 ELSE firstMeta.supplied,
                    accepted |-> IF firstMeta.accepted = <<>>
                                    /\ id \in DOMAIN invocations
                                 THEN data[1] ELSE firstMeta.accepted]
       /\ UNCHANGED <<maxSize, maxAge, currentlyExecutingRequestID, now>>

OnLambdaLogRuntimeDone(reqID, status) ==
    LET r == finalizeInvocation(Batch, reqID, status)
    IN /\ Install(r.b)
       /\ last' = Called("OnLambdaLogRuntimeDone", r.err)
       /\ txnOut' = [txnOut EXCEPT ![reqID] = 0]
       /\ UNCHANGED <<maxSize, maxAge, currentlyExecutingRequestID, now, firstMeta>>

OnShutdown(status, order) ==
    LET r == shutdownLoop(Batch, order, 1, status)
    IN /\ Install(r.b)
       /\ last' = Called("OnShutdown", r.err)
       /\ txnOut' = [x \in RequestIDs |->
                        IF x \in DOMAIN r.b.invocations THEN txnOut[x] ELSE 0]
       /\ UNCHANGED <<maxSize, maxAge, currentlyExecutingRequestID, now, firstMeta>>

AddLambdaData(d) ==
    LET r == addData(Batch, d)
    IN /\ Install(r.b)
       /\ last' = Called("AddLambdaData", r.err)
       /\ UNCHANGED <<maxSize, maxAge, currentlyExecutingRequestID, now, txnOut,
                      firstMeta>>

Count ==
    /\ last' = [Called("Count", Nil) EXCEPT !.ret = count]
    /\ UNCHANGED <<maxSize, maxAge, metadataBytes, buf, capacity, count, age, invocations,
                   currentlyExecutingRequestID, now, snap, txnOut, firstMeta>>

ShouldShip ==
    /\ last' = [Called("ShouldShip", Nil) EXCEPT !.ret =
                   \/ count >= sizeThreshold
                   \/ (age # zeroTime /\ now - age > maxAge)]
    /\ UNCHANGED <<maxSize, maxAge, metadataBytes, buf, capacity, count, age, invocations,
                   currentlyExecutingRequestID, now, snap, txnOut, firstMeta>>

\* Reset leaving count as it is
ResetKeepsCount ==
    LET b == bufTruncate([Batch EXCEPT !.age = zeroTime,
                                       !.snap.pending = FALSE],
                         metadataBytes)
    IN /\ Install(b)
       /\ last' = Called("Reset", Nil)
       /\ UNCHANGED <<maxSize, maxAge, currentlyExecutingRequestID, now, txnOut,
                      firstMeta>>

Reset ==
    LET b == bufTruncate([Batch EXCEPT !.count = 0, !.age = zeroTime,
                                       !.snap.pending = FALSE],
                         metadataBytes)
    IN /\ Install(b)
       /\ last' = Called("Reset", Nil)
       /\ UNCHANGED <<maxSize, maxAge, currentlyExecutingRequestID, now, txnOut,
                      firstMeta>>

ToAPMData ==
    /\ snap' = [taken |-> TRUE, alias |-> TRUE, pending |-> TRUE, orig |-> buf,
                view |-> buf]
    /\ last' = Called("ToAPMData", Nil)
    /\ UNCHANGED <<maxSize, maxAge, metadataBytes, buf, capacity, count, age, invocations,
                   currentlyExecutingRequestID, now, txnOut, firstMeta>>

\* Time passes.
Tick ==
    /\ now < MaxTime
    /\ now' = now + 1
    /\ last' = Called("Tick", Nil)
    /\ UNCHANGED <<maxSize, maxAge, metadataBytes, buf, capacity, count, age, invocations,
                   currentlyExecutingRequestID, snap, txnOut, firstMeta>>

-----------------------------------------------------------------------------
(* Specifications *)

\* The calls of the platform task, the receiver task and the logs task
Producers(requests, inits, datas, statuses) ==
    \/ \E requestID \in requests : RegisterInvocation(requestID)
    \/ \E a \in inits : OnAgentInit(a[1], a[2])
    \/ \E apmData \in datas : AddAgentData(apmData)
    \/ \E reqID \in requests, status \in statuses :
           OnLambdaLogRuntimeDone(reqID, status)
    \/ \E status \in statuses, order \in Orders(DOMAIN invocations) :
           OnShutdown(status, order)
    \/ \E d \in LambdaLines : AddLambdaData(d)

\* One invocation at a time, as the platform runs them: every body of one
\* kind of metadata, with and without an announced transaction
SpecDatas ==
    Plain(Bodies({M1, <<>>}, {TxnLine(T1), MetricsetLine}, MaxEvents))

Init == \E size \in 0..MaxBatchSize : NewBatch(size, MaxBatchAge)

Next ==
    \/ Producers({"R1"}, {<<NoID, NoID>>, <<T1, Tr1>>}, SpecDatas, Statuses)
    \/ Reset

Spec == Init /\ [][Next]_vars

\* Agents that disagree on the metadata line
MetaDatas == Plain(Bodies(MetadataLines \cup {<<>>}, {MetricsetLine}, 1))

NextMeta ==
    \/ Producers({"R1"}, {<<T1, Tr1>>}, MetaDatas, {Timeout})
    \/ Reset

SpecMeta == Init /\ [][NextMeta]_vars

\* A second invocation registered before the first is finalized
OverlapDatas == Plain(Bodies({M1}, {TxnLine(T1)}, 1))

NextOverlap ==
    \/ Producers(RequestIDs, AgentInits, OverlapDatas, {Timeout})
    \/ Reset

SpecOverlap == Init /\ [][NextOverlap]_vars

\* The batch over time, polled by the send coordinator
ClockDatas == Plain(Bodies({M1}, {MetricsetLine}, 1))

InitClock ==
    \E size \in 0..(MaxBatchSize + 1), maturity \in 0..MaxBatchAge :
        NewBatch(size, maturity)

NextClock ==
    \/ Producers({"R1"}, {<<T1, Tr1>>}, ClockDatas, {Timeout})
    \/ Reset
    \/ Count
    \/ ShouldShip
    \/ Tick

SpecClock == InitClock /\ [][NextClock]_vars

\* Request bodies of several transaction events, of the announced
\* transaction and of another one
OrderDatas == Plain(Bodies({M1}, {TxnLine(T1), TxnLine(T2)}, MaxEvents))

NextOrder ==
    \/ Producers({"R1"}, {<<T1, Tr1>>}, OrderDatas, {Timeout})
    \/ Reset

SpecOrder == Init /\ [][NextOrder]_vars

\* The ship iteration (ToAPMData, POST, Reset) beside the producers
ShipDatas == Plain(Bodies({M1}, {MetricsetLine}, 1))

NextShip ==
    \/ Producers({"R1"}, {<<T1, Tr1>>}, ShipDatas, {Timeout})
    \/ Reset
    \/ ToAPMData

SpecShip == Init /\ [][NextShip]_vars

\* Agents that compress their request bodies, one of them with an encoding
\* the extension does not know
CodecDatas ==
    LET bodies == Bodies({M1}, {MetricsetLine}, 1)
    IN Plain(bodies) \cup Encoded(bodies)

NextCodec ==
    \/ Producers({"R1"}, {<<T1, Tr1>>}, CodecDatas, {Timeout})
    \/ Reset

SpecCodec == Init /\ [][NextCodec]_vars

\* Request bodies closed by a newline, whose last line is empty
StructDatas ==
    Plain(Bodies({M1}, {TxnLine(T1), MetricsetLine, EmptyLine}, MaxEvents))

NextStruct ==
    \/ Producers({"R1"}, {<<T1, Tr1>>}, StructDatas, {Timeout})
    \/ Reset

SpecStruct == Init /\ [][NextStruct]_vars

\* The send coordinator's single worker, one ship iteration after the
\* other beside the producers: it takes the snapshot,
ShipSnapshot == ~snap.pending /\ ToAPMData

\* then, the snapshot holding entries and the POST answered 2xx, calls Reset,
ShipReset == snap.pending /\ Entries(snap.orig) # <<>> /\ Reset

\* or returns without Reset: the snapshot is empty, or the POST failed.
ShipReturn ==
    /\ snap.pending
    /\ snap' = [snap EXCEPT !.pending = FALSE]
    /\ last' = Called("ShipReturn", Nil)
    /\ UNCHANGED <<maxSize, maxAge, metadataBytes, buf, capacity, count, age, invocations,
                   currentlyExecutingRequestID, now, txnOut, firstMeta>>

NextLoss ==
    \/ Producers({"R1"}, {<<T1, Tr1>>}, ShipDatas, {Timeout})
    \/ ShipSnapshot
    \/ ShipReset
    \/ ShipReturn

SpecLoss == Init /\ [][NextLoss]_vars

-----------------------------------------------------------------------------
(* Properties *)

\* The entries a step appended to buf
NewEntries ==
    Tail(Split(SubSeq(buf', Len(buf) + 1 + (metadataBytes' - metadataBytes),
                      Len(buf'))))

\* What a reader of the batch finds in one entry
Fields(e) ==
    [type |-> findEventType(e),
     id |-> gjsonTransactionID(e),
     trace_id |-> JsonStr(e, Str_trace_id),
     outcome |-> JsonStr(e, Str_outcome)]

\* Fields, tabulated once over the lines the callers and Finalize produce
fieldsOf ==
    [e \in EventLines \cup
           {ProxyTxn([TransactionID |-> a[1], TraceID |-> a[2]], st) :
               a \in AgentInits, st \in Statuses} |-> Fields(e)]

\* e is a transaction event with the invocation's ids and the status
CarriesProxy(e, inc, status) ==
    LET f == IF e \in DOMAIN fieldsOf THEN fieldsOf[e] ELSE Fields(e)
    IN /\ f.type = Str_transaction
       /\ f.id = inc.TransactionID
       /\ f.trace_id = inc.TraceID
       /\ f.outcome = status

\* The step appended exactly one entry, a proxy transaction for inc
AppendedProxy(inc, status) ==
    /\ count' = count + 1
    /\ Prefix(buf', Len(buf)) = buf
    /\ Len(NewEntries) = 1
    /\ buf' = buf \o <<NL>> \o NewEntries[1]
    /\ CarriesProxy(NewEntries[1], inc, status)

Needing(invs) == {r \in DOMAIN invs : NeedProxyTransaction(invs[r])}

\* C1: Proxy transaction exclusivity.  When an invocation that got a
\* TransactionID through OnAgentInit is finalized (OnLambdaLogRuntimeDone or
\* OnShutdown) with metadata present and room in the batch, the entries
\* appended to buf for it hold exactly one transaction event with that id:
\* the agent's own line or else the proxy, never none and never both.
ProxyTransactionExclusivity ==
    [][/\ last'.op = "OnLambdaLogRuntimeDone" =>
            \A r \in DOMAIN invocations, st \in Statuses :
                (/\ OnLambdaLogRuntimeDone(r, st)
                 /\ invocations[r].TransactionID # NoID
                 /\ metadataBytes # 0
                 /\ count < maxSize)
                => txnOut[r] + (count' - count) = 1
       /\ last'.op = "OnShutdown" =>
            \A st \in Statuses, order \in Orders(DOMAIN invocations) :
                (/\ OnShutdown(st, order)
                 /\ metadataBytes # 0
                 /\ count + Cardinality(DOMAIN invocations) <= maxSize)
                => /\ count' - count = Cardinality(Needing(invocations))
                   /\ \A r \in DOMAIN invocations :
                          invocations[r].TransactionID # NoID =>
                              txnOut[r] + (IF r \in Needing(invocations)
                                           THEN 1 ELSE 0) = 1]_vars

\* C2: Reset preserves metadata.  Right after Reset, len(buf) = metadataBytes,
\* count = 0, age is zero, the metadata bytes are those of before, and
\* metadataBytes, invocations and currentlyExecutingRequestID are unchanged.
ResetPreservesMetadata ==
    [][Reset =>
          /\ Len(buf') = metadataBytes
          /\ count' = 0
          /\ age' = zeroTime
          /\ Prefix(buf', metadataBytes) = Prefix(buf, metadataBytes)
          /\ Len(Prefix(buf, metadataBytes)) = metadataBytes
          /\ UNCHANGED <<metadataBytes, invocations, currentlyExecutingRequestID>>
      ]_vars

\* Reset has just emptied a batch of two entries, leaving the metadata line.
ResetWitness ==
    /\ last.op = "Reset"
    /\ last.n = 2
    /\ buf = M1
    /\ count = 0

\* C3: Shipping threshold.  ShouldShip returns true exactly when
\* count >= floor(0.9 * maxSize) or the age is set and older than maxAge;
\* the age trigger never fires while the batch holds no entry.
ShippingThreshold ==
    /\ last.op = "ShouldShip" =>
           (last.ret <=> \/ 10 * (count + 1) > 9 * maxSize
                         \/ (age # zeroTime /\ now - age > maxAge))
    /\ count = 0 => ~(age # zeroTime /\ now - age > maxAge)

\* ShouldShip answered true for age alone: the size is below the threshold.
ShipByAgeWitness ==
    /\ last.op = "ShouldShip"
    /\ last.ret = TRUE
    /\ count > 0
    /\ 10 * (count + 1) <= 9 * maxSize

\* C4: Batch full.  With metadata present and count = maxSize,
\* AddLambdaData returns ErrBatchFull and leaves buf, count, age,
\* metadataBytes and invocations as they were.
BatchFullRefuses ==
    [][last'.op = "AddLambdaData" =>
          \A d \in LambdaLines :
              (AddLambdaData(d) /\ metadataBytes # 0 /\ count = maxSize)
              => /\ last'.err = ErrBatchFull
                 /\ UNCHANGED <<buf, count, age, metadataBytes, invocations>>
      ]_vars

\* AddLambdaData was refused after maxSize entries had been accepted.
BatchFullWitness ==
    /\ last.op = "AddLambdaData"
    /\ last.err = ErrBatchFull
    /\ maxSize = MaxBatchSize
    /\ count = maxSize
    /\ Len(Entries(buf)) = maxSize

\* C5: Metadata unavailable.  While metadataBytes = 0, AddLambdaData returns
\* ErrMetadataUnavailable, also when maxSize is 0, and leaves the batch as it
\* was: buf empty, count 0, age zero.
MetadataUnavailableRefuses ==
    [][last'.op = "AddLambdaData" =>
          \A d \in LambdaLines :
              (AddLambdaData(d) /\ metadataBytes = 0)
              => /\ last'.err = ErrMetadataUnavailable
                 /\ UNCHANGED <<buf, count, age, metadataBytes, invocations,
                                currentlyExecutingRequestID>>
                 /\ buf' = <<>>
                 /\ count' = 0
                 /\ age' = zeroTime
      ]_vars

\* AddLambdaData was refused for want of metadata by a batch of maxSize 0.
MetadataUnavailableWitness ==
    /\ last.op = "AddLambdaData"
    /\ last.err = ErrMetadataUnavailable
    /\ maxSize = 0
    /\ metadataBytes = 0

\* C6 as claimed: once a metadata line is captured, buf[0:metadataBytes] is
\* the first metadata line ever supplied to AddAgentData.
MetadataIsFirstSupplied ==
    (firstMeta.supplied # <<>> /\ metadataBytes # 0)
        => Prefix(buf, metadataBytes) = firstMeta.supplied

\* C6, amended: buf[0:metadataBytes] is the first non-empty metadata line
\* supplied to an AddAgentData call that found the currently executing
\* invocation registered (empty while there was none), and once
\* metadataBytes is non-zero neither it nor those bytes ever change.
MetadataImmutability ==
    /\ [](/\ Prefix(buf, metadataBytes) = firstMeta.accepted
          /\ metadataBytes = Len(firstMeta.accepted))
    /\ [][metadataBytes # 0 =>
             /\ metadataBytes' = metadataBytes
             /\ Prefix(buf', metadataBytes) = Prefix(buf, metadataBytes)]_vars

\* The captured line is the second one supplied, and it outlived an
\* entry and a Reset.
MetadataImmutabilityWitness ==
    /\ firstMeta.supplied = M1
    /\ firstMeta.accepted = M2
    /\ last.op = "Reset"
    /\ last.n > 0
    /\ buf = M2

\* C7 as claimed: OnLambdaLogRuntimeDone of a registered reqID removes the
\* invocation and, if it needed a proxy transaction, has appended exactly that
\* proxy as the last entry; if not, buf and count are unchanged.
RuntimeDoneAppendsProxy ==
    [][last'.op = "OnLambdaLogRuntimeDone" =>
          \A r \in DOMAIN invocations, st \in Statuses :
              OnLambdaLogRuntimeDone(r, st)
              => /\ r \notin DOMAIN invocations'
                 /\ IF NeedProxyTransaction(invocations[r])
                    THEN AppendedProxy(invocations[r], st)
                    ELSE UNCHANGED <<buf, count>>
      ]_vars

\* C7, amended: OnLambdaLogRuntimeDone of a registered reqID removes the
\* invocation and leaves the others alone.  If it needed a proxy transaction
\* and metadata is present and count < maxSize, exactly that proxy (its
\* TransactionID, TraceID and the status) has been appended as the last entry
\* and nil is returned; if it needed one and there is no metadata or no room,
\* ErrMetadataUnavailable or ErrBatchFull is returned and buf and count are
\* unchanged; if it needed none, nil is returned and buf and count are
\* unchanged.
RuntimeDoneFinalizes ==
    [][last'.op = "OnLambdaLogRuntimeDone" =>
          \A r \in DOMAIN invocations, st \in Statuses :
              OnLambdaLogRuntimeDone(r, st)
              => /\ invocations' = Remove(invocations, r)
                 /\ IF ~NeedProxyTransaction(invocations[r])
                    THEN last'.err = Nil /\ UNCHANGED <<buf, count>>
                    ELSE IF metadataBytes = 0
                    THEN /\ last'.err = ErrMetadataUnavailable
                         /\ UNCHANGED <<buf, count>>
                    ELSE IF count = maxSize
                    THEN last'.err = ErrBatchFull /\ UNCHANGED <<buf, count>>
                    ELSE last'.err = Nil /\ AppendedProxy(invocations[r], st)
      ]_vars

\* runtimeDone has appended the proxy of a timed-out invocation after an
\* entry of the agent.
RuntimeDoneWitness ==
    /\ last.op = "OnLambdaLogRuntimeDone"
    /\ last.err = Nil
    /\ last.n = 1
    /\ invocations = <<>>
    /\ Entries(buf) = <<MetricsetLine,
                        ProxyTxn([TransactionID |-> T1, TraceID |-> Tr1], Timeout)>>

\* C8 as claimed: after OnShutdown the invocations map is empty and buf
\* holds a proxy transaction with the status for every invocation that
\* needed one, whatever the iteration order.
ShutdownFinalizesEverything ==
    [][last'.op = "OnShutdown" =>
          \A st \in Statuses, order \in Orders(DOMAIN invocations) :
              OnShutdown(st, order)
              => /\ DOMAIN invocations' = {}
                 /\ \A r \in Needing(invocations) :
                        \E i \in 1..Len(NewEntries) :
                            CarriesProxy(NewEntries[i], invocations[r], st)
      ]_vars

\* C8, amended: when OnShutdown returns nil, the invocations map is empty
\* and exactly the proxies of the invocations that needed one have been
\* appended, with the status, in the order of the iteration.  When it returns
\* an error (ErrMetadataUnavailable or ErrBatchFull, the first one met), the
\* invocations visited up to and including the failing one are removed, the
\* proxies of those before it are appended, and the others stay registered
\* and unchanged.
ShutdownFinalizesUntilError ==
    [][last'.op = "OnShutdown" =>
          \A st \in Statuses, order \in Orders(DOMAIN invocations) :
              OnShutdown(st, order)
              => LET need == Needing(invocations)
                     new == NewEntries
                     ok == last'.err = Nil
                 IN \E k \in 0..Len(order) :
                     LET visited == {order[j] : j \in 1..k}
                         proxied == {j \in 1..k : order[j] \in need /\ (j < k \/ ok)}
                     IN /\ DOMAIN invocations' = DOMAIN invocations \ visited
                        /\ ok => k = Len(order)
                        /\ ~ok =>
                               /\ k >= 1
                               /\ order[k] \in need
                               /\ last'.err = IF metadataBytes = 0
                                              THEN ErrMetadataUnavailable
                                              ELSE ErrBatchFull
                        /\ \A r \in DOMAIN invocations' :
                               invocations'[r] = invocations[r]
                        /\ count' = count + Cardinality(proxied)
                        /\ Len(new) = Cardinality(proxied)
                        /\ \A j \in proxied :
                               CarriesProxy(
                                   new[Cardinality({i \in proxied : i <= j})],
                                   invocations[order[j]], st)
      ]_vars

\* Shutdown has finalized two open invocations and appended both proxies.
ShutdownWitness ==
    /\ last.op = "OnShutdown"
    /\ last.err = Nil
    /\ invocations = <<>>
    /\ count = last.n + 2
    /\ {gjsonTransactionID(Entries(buf)[i]) : i \in (last.n + 1)..count} = {T1, T2}

\* C9: Consistent snapshot.  The bytes of the APMData returned by ToAPMData
\* stay those buf held at the call, whatever is done to the batch afterwards.
SnapshotStable ==
    snap.taken => snap.view = snap.orig

\* C10: Append order.  Apart from Reset no call changes or reorders what is
\* in buf: every entry goes to the end, so a proxy transaction comes after
\* all that was appended before the finalize.  The entries one AddAgentData
\* call appends are events of its body, in the order of the body and next to
\* each other; when it returns nil they are all of them, but for at most one
\* transaction event with the invocation's TransactionID.
AppendOrder ==
    [][/\ last'.op # "Reset" =>
            /\ Prefix(buf', Len(buf)) = buf
            /\ Len(buf') >= Len(buf)
       /\ last'.op = "AddAgentData" =>
            \A a \in OrderDatas :
                AddAgentData(a) =>
                    LET evs == Tail(splitLines[a])
                        id == currentlyExecutingRequestID
                    IN /\ IsSubsequence(NewEntries, evs)
                       /\ Entries(buf') = Entries(buf) \o NewEntries
                       /\ last'.err = Nil =>
                              \/ NewEntries = evs
                              \/ \E i \in 1..Len(evs) :
                                     /\ IsTxnOf(evs[i], invocations[id].TransactionID)
                                     /\ NewEntries = SubSeq(evs, 1, i - 1)
                                            \o SubSeq(evs, i + 1, Len(evs))
      ]_vars

\* One AddAgentData call has appended the events of its body behind an
\* earlier entry, but for the transaction the invocation had announced.
AppendOrderWitness ==
    /\ last.op = "AddAgentData"
    /\ last.err = Nil
    /\ last.n = 1
    /\ "R1" \in DOMAIN invocations
    /\ invocations["R1"].TransactionObserved
    /\ Entries(buf) = <<MetricsetLine, TxnLine(T2)>>

\* The invocations other than the pivot are registered and unchanged by the step
OthersUntouched(pivot) ==
    /\ DOMAIN invocations \ {pivot} \subseteq DOMAIN invocations'
    /\ \A r \in DOMAIN invocations \ {pivot} : invocations'[r] = invocations[r]

\* C11: Attribution to the later invocation.  RegisterInvocation makes the
\* invocation it registers the pivot and leaves the others registered and
\* unchanged; from then on every OnAgentInit and AddAgentData reads and
\* writes only the record of the pivot (TransactionID, TraceID,
\* TransactionObserved): whether a transaction line is dropped is decided by
\* the pivot's record alone, the records of the other invocations are
\* unchanged, and each of them is still finalized by OnLambdaLogRuntimeDone
\* with its request id.
AttributionToLater ==
    [][/\ last'.op = "RegisterInvocation" =>
            LET id == currentlyExecutingRequestID'
            IN /\ id \in DOMAIN invocations'
               /\ invocations'[id] = NewInvocation(id)
               /\ DOMAIN invocations' = DOMAIN invocations \cup {id}
               /\ \A r \in DOMAIN invocations \ {id} :
                      invocations'[r] = invocations[r]
       /\ last'.op = "OnAgentInit" =>
            /\ UNCHANGED currentlyExecutingRequestID
            /\ DOMAIN invocations' = DOMAIN invocations
            /\ OthersUntouched(currentlyExecutingRequestID)
            /\ \A a \in AgentInits :
                   (/\ OnAgentInit(a[1], a[2])
                    /\ currentlyExecutingRequestID \in DOMAIN invocations)
                   => LET inc == invocations'[currentlyExecutingRequestID]
                      IN inc.TransactionID = a[1] /\ inc.TraceID = a[2]
       /\ last'.op = "AddAgentData" =>
            /\ UNCHANGED currentlyExecutingRequestID
            /\ DOMAIN invocations' = DOMAIN invocations
            /\ OthersUntouched(currentlyExecutingRequestID)
            /\ \A a \in OverlapDatas :
                   (/\ AddAgentData(a)
                    /\ currentlyExecutingRequestID \in DOMAIN invocations
                    /\ Len(splitLines[a]) = 2
                    /\ last'.err = Nil)
                   => LET id == currentlyExecutingRequestID
                          own == /\ NeedProxyTransaction(invocations[id])
                                 /\ IsTxnOf(splitLines[a][2],
                                            invocations[id].TransactionID)
                      IN IF own
                         THEN /\ count' = count
                              /\ invocations'[id] =
                                     [invocations[id] EXCEPT
                                         !.TransactionObserved = TRUE]
                         ELSE /\ count' = count + 1
                              /\ invocations'[id] = invocations[id]
       /\ last'.op = "OnLambdaLogRuntimeDone" =>
            \A r \in DOMAIN invocations \ {currentlyExecutingRequestID} :
                OnLambdaLogRuntimeDone(r, Timeout) =>
                    /\ last'.err # ErrNoInvocation
                    /\ DOMAIN invocations' = DOMAIN invocations \ {r}
                    /\ OthersUntouched(r)
      ]_vars

\* R1 announced T1 and R2, registered later, announced T1 too: the agent's
\* transaction line has been attributed to R2, and R1 still needs its proxy.
AttributionWitness ==
    /\ last.op = "AddAgentData"
    /\ currentlyExecutingRequestID = "R2"
    /\ DOMAIN invocations = {"R1", "R2"}
    /\ invocations["R2"].TransactionObserved
    /\ invocations["R1"].TransactionID = T1
    /\ NeedProxyTransaction(invocations["R1"])

\* C12: Unknown invocation.  OnLambdaLogRuntimeDone(reqID, status) for a
\* reqID that is not registered (never registered, or already finalized)
\* returns the "invocation does not exist" error and leaves buf, count, age,
\* metadataBytes, invocations and currentlyExecutingRequestID unchanged, as
\* well as the buffer's array, so that later operations find the batch as
\* it was.
UnknownInvocationRefused ==
    [][last'.op = "OnLambdaLogRuntimeDone" =>
          \A r \in RequestIDs \ DOMAIN invocations, st \in Statuses :
              OnLambdaLogRuntimeDone(r, st) =>
                  /\ last'.err = ErrNoInvocation
                  /\ UNCHANGED <<buf, count, age, metadataBytes, invocations,
                                 currentlyExecutingRequestID, capacity, snap>>
      ]_vars

\* R1 was registered and finalized, leaving one entry; a second
\* OnLambdaLogRuntimeDone for it has been refused.
UnknownInvocationWitness ==
    /\ last.op = "OnLambdaLogRuntimeDone"
    /\ last.err = ErrNoInvocation
    /\ currentlyExecutingRequestID = "R1"
    /\ DOMAIN invocations = {}
    /\ count = 1
    /\ age # zeroTime

\* C13: Unknown encoding.  AddAgentData with a ContentEncoding other than
\* identity, gzip or deflate returns ErrInvalidEncoding and leaves the batch
\* unchanged (no metadata captured, no event appended, no invocation field
\* modified), in every batch state; with one of the three encodings it never
\* returns ErrInvalidEncoding.
UnknownEncodingRefused ==
    [][last'.op = "AddAgentData" =>
          \A a \in CodecDatas :
              AddAgentData(a) =>
                  IF a.ContentEncoding \in {Identity, Gzip, Deflate}
                  THEN last'.err # ErrInvalidEncoding
                  ELSE /\ last'.err = ErrInvalidEncoding
                       /\ UNCHANGED <<metadataBytes, buf, capacity, count, age,
                                      invocations, currentlyExecutingRequestID,
                                      snap>>
      ]_vars

\* An invocation is registered and the batch has no metadata yet: the body
\* would have supplied it, but its encoding has been refused.
UnknownEncodingWitness ==
    /\ last.op = "AddAgentData"
    /\ last.err = ErrInvalidEncoding
    /\ currentlyExecutingRequestID \in DOMAIN invocations
    /\ metadataBytes = 0
    /\ buf = <<>>

\* What the events evs of a body leave behind for an invocation announced
\* with the transaction id tid: the first transaction event with that id is
\* taken out while the invocation needs a proxy, every other event is kept.
RECURSIVE KeptEvents(_, _, _)
KeptEvents(evs, tid, need) ==
    IF evs = <<>> THEN [kept |-> <<>>, observed |-> FALSE]
    ELSE LET f == fieldsOf[Head(evs)]
         IN IF need /\ f.type = Str_transaction /\ f.id = tid
            THEN [kept |-> KeptEvents(Tail(evs), tid, FALSE).kept,
                  observed |-> TRUE]
            ELSE LET rest == KeptEvents(Tail(evs), tid, need)
                 IN [kept |-> <<Head(evs)>> \o rest.kept,
                     observed |-> rest.observed]

\* C14: Drop of the observed transaction.  In AddAgentData, while the current
\* invocation needs a proxy transaction, an event whose type is transaction
\* and whose transaction.id equals the invocation's TransactionID sets
\* TransactionObserved and is not appended (buf and count are not changed by
\* that line); every other event, also a later one with the same transaction
\* id once TransactionObserved is true, is appended.
ObservedTransactionDropped ==
    [][last'.op = "AddAgentData" =>
          \A a \in OrderDatas :
              (/\ AddAgentData(a)
               /\ currentlyExecutingRequestID \in DOMAIN invocations
               /\ last'.err = Nil)
              => LET id == currentlyExecutingRequestID
                     inc == invocations[id]
                     e == KeptEvents(Tail(splitLines[a]), inc.TransactionID,
                                     NeedProxyTransaction(inc))
                 IN /\ NewEntries = e.kept
                    /\ count' = count + Len(e.kept)
                    /\ invocations'[id] =
                           [inc EXCEPT !.TransactionObserved = @ \/ e.observed]
      ]_vars

\* The announced transaction has been observed and dropped, and one call
\* has appended a later event with the same transaction id as first entry.
ObservedDropWitness ==
    /\ last.op = "AddAgentData"
    /\ last.err = Nil
    /\ last.n = 0
    /\ "R1" \in DOMAIN invocations
    /\ invocations["R1"].TransactionID = T1
    /\ invocations["R1"].TransactionObserved
    /\ Entries(buf) = <<TxnLine(T1)>>

\* C15: Structural invariant of the batch.  In every reachable state
\* 0 <= metadataBytes <= len(buf) and 0 <= count <= maxSize, and buf is the
\* metadata prefix, which holds no newline, followed by exactly count
\* entries, each preceded by one newline: buf has count newlines, the first
\* of them right after the prefix, and count lines after the first.
StructuralInvariant ==
    /\ 0 <= metadataBytes
    /\ metadataBytes <= Len(buf)
    /\ 0 <= count
    /\ count <= maxSize
    /\ \A i \in 1..metadataBytes : buf[i] # NL
    /\ Cardinality({i \in 1..Len(buf) : buf[i] = NL}) = count
    /\ count > 0 => buf[metadataBytes + 1] = NL
    /\ count = 0 => Len(buf) = metadataBytes
    /\ Len(Entries(buf)) = count
    /\ buf = Join(<<Prefix(buf, metadataBytes)>> \o Entries(buf))

\* A full batch of two entries whose last one is the empty line of a body
\* closed by a newline
StructuralWitness ==
    /\ last.op = "AddAgentData"
    /\ count = 2
    /\ count = maxSize
    /\ metadataBytes = Len(M1)
    /\ Entries(buf)[1] # EmptyLine
    /\ Entries(buf)[2] = EmptyLine

\* C16: Age tracks the first entry.  In every reachable state age is zero
\* if and only if count is 0; the step that appends the first entry after
\* construction or after a Reset sets age to the current time, and no other
\* step changes age but Reset, which sets it to zero: not a later append,
\* not a failed append, not an operation that appends nothing.
AgeTracksFirstEntry ==
    /\ [](age = zeroTime <=> count = 0)
    /\ [][/\ (count = 0 /\ count' > 0) => age' = now
          /\ age' # age =>
                 \/ count = 0 /\ count' > 0
                 \/ Reset /\ age' = zeroTime
         ]_vars

\* The second entry has been appended one tick after the first: age is
\* still the time of the first.
AgeWitness ==
    /\ last.op = "AddLambdaData"
    /\ last.err = Nil
    /\ last.n = 1
    /\ count = 2
    /\ age = 1
    /\ now = 2

\* C17: Invocation invariant.  For every invocation of the batch, after any
\* sequence of operations (several OnAgentInit calls for one invocation
\* included, with an empty or another transaction id, after its transaction
\* was observed), TransactionObserved implies that TransactionID is not
\* empty, and TransactionObserved is true only if a transaction event with
\* the invocation's current TransactionID passed through AddAgentData: the
\* flag is raised only by an AddAgentData step, for the TransactionID of
\* that moment, and that id is the invocation's from then on.
InvocationInvariant ==
    /\ [](\A r \in DOMAIN invocations :
              invocations[r].TransactionObserved =>
                  invocations[r].TransactionID # NoID)
    /\ [][\A r \in DOMAIN invocations \cap DOMAIN invocations' :
              /\ (/\ invocations'[r].TransactionObserved
                  /\ ~invocations[r].TransactionObserved)
                 => /\ last'.op = "AddAgentData"
                    /\ invocations'[r].TransactionID # NoID
                    /\ invocations'[r].TransactionID = invocations[r].TransactionID
              /\ (/\ invocations'[r].TransactionObserved
                  /\ invocations[r].TransactionObserved)
                 => invocations'[r].TransactionID = invocations[r].TransactionID
         ]_vars

\* C18: No entry is lost by shipping.  With the ship iteration (snapshot by
\* ToAPMData, POST, Reset on 2xx, no Reset otherwise) running beside the
\* producers, Reset removes an entry from buf only if the snapshot of the
\* iteration, the one that got the 2xx, holds it; an entry appended between
\* the snapshot and the Reset is still in buf afterwards.
NoEntryLostByShipping ==
    [][(last'.op = "Reset" /\ ShipReset) =>
          LET sent == Entries(snap.orig)
              held == Entries(buf)
          IN /\ \A i \in 1..Len(held) :
                    i > Len(Entries(buf')) => (i <= Len(sent) /\ sent[i] = held[i])
             /\ Entries(buf') = SubSeq(held, Len(sent) + 1, Len(held))
      ]_vars

\* C19: Partial acceptance on a full batch.  When AddAgentData returns
\* ErrBatchFull for a body with the events e1..en, there is an index k such
\* that exactly e1..e(k-1), less a dropped transaction of the invocation,
\* have been appended in order after what buf held, ek is the event that was
\* refused and neither it nor a later one has been appended, count equals
\* maxSize, and the metadata line this call captured and the
\* TransactionObserved flag it set are kept: the call is not rolled back.
PartialAcceptance ==
    [][last'.op = "AddAgentData" =>
          \A a \in OrderDatas :
              (AddAgentData(a) /\ last'.err = ErrBatchFull) =>
                  LET id == currentlyExecutingRequestID
                      inc == invocations[id]
                      data == splitLines[a]
                      evs == Tail(data)
                      need == NeedProxyTransaction(inc)
                  IN /\ count' = maxSize
                     /\ metadataBytes' =
                            IF metadataBytes = 0 THEN Len(data[1]) ELSE metadataBytes
                     /\ Prefix(buf', metadataBytes') =
                            IF metadataBytes = 0 THEN data[1] ELSE Prefix(buf, metadataBytes)
                     /\ SubSeq(buf', metadataBytes' + 1,
                               metadataBytes' + Len(buf) - metadataBytes) =
                            SubSeq(buf, metadataBytes + 1, Len(buf))
                     /\ \E k \in 1..Len(evs) :
                            LET e == KeptEvents(SubSeq(evs, 1, k - 1),
                                                inc.TransactionID, need)
                            IN /\ NewEntries = e.kept
                               /\ count' = count + Len(e.kept)
                               /\ invocations'[id] =
                                      [inc EXCEPT !.TransactionObserved =
                                                      @ \/ e.observed]
                               /\ ~(/\ need
                                    /\ ~e.observed
                                    /\ IsTxnOf(evs[k], inc.TransactionID))
                     /\ DOMAIN invocations' = DOMAIN invocations
                     /\ OthersUntouched(id)
      ]_vars

\* A call has appended the first event of its body as the last entry the
\* batch has room for, and has been refused the next.
PartialAcceptanceWitness ==
    /\ last.op = "AddAgentData"
    /\ last.err = ErrBatchFull
    /\ count = maxSize
    /\ count = last.n + 1

\* The pivot names no registered invocation: none was registered yet, or the
\* one it names has been finalized
StalePivot == currentlyExecutingRequestID \notin DOMAIN invocations

\* The step changed nothing of the batch
BatchUnchanged ==
    UNCHANGED <<metadataBytes, buf, capacity, count, age, invocations,
                currentlyExecutingRequestID, snap>>

\* C20, as claimed: finalizing an invocation does not change
\* currentlyExecutingRequestID, so from the step by which
\* OnLambdaLogRuntimeDone or OnShutdown removes the currently executing
\* invocation until the next RegisterInvocation, and on a fresh batch before
\* the first RegisterInvocation, every OnAgentInit and every AddAgentData
\* returns the "invocation does not exist" error and leaves the batch
\* unchanged.
StalePivotRefusesAll ==
    [][/\ last'.op \in {"OnLambdaLogRuntimeDone", "OnShutdown"} =>
              UNCHANGED currentlyExecutingRequestID
       /\ StalePivot =>
              /\ last'.op # "RegisterInvocation" => StalePivot'
              /\ last'.op \in {"OnAgentInit", "AddAgentData"} =>
                     last'.err = ErrNoInvocation /\ BatchUnchanged
      ]_vars

\* C20, amended: as above, but an AddAgentData whose body cannot be decoded
\* returns the error of the decoding, which comes before the lookup of the
\* invocation; every other AddAgentData and every OnAgentInit returns the
\* "invocation does not exist" error.  All of them leave the batch unchanged
\* (no metadata captured, no event appended).
StalePivotRefuses ==
    [][/\ last'.op \in {"OnLambdaLogRuntimeDone", "OnShutdown"} =>
              UNCHANGED currentlyExecutingRequestID
       /\ StalePivot =>
              /\ last'.op # "RegisterInvocation" => StalePivot'
              /\ last'.op = "OnAgentInit" =>
                     last'.err = ErrNoInvocation /\ BatchUnchanged
              /\ last'.op = "AddAgentData" =>
                     /\ BatchUnchanged
                     /\ \A a \in CodecDatas :
                            AddAgentData(a) =>
                                last'.err =
                                    IF a.ContentEncoding \in {Identity, Gzip, Deflate}
                                    THEN ErrNoInvocation
                                    ELSE ErrInvalidEncoding
      ]_vars

\* R1 has been finalized and is still the pivot; a body with a metadata line
\* has been refused, and the batch has no metadata.
StalePivotWitness ==
    /\ last.op = "AddAgentData"
    /\ last.err = ErrNoInvocation
    /\ currentlyExecutingRequestID = "R1"
    /\ DOMAIN invocations = {}
    /\ metadataBytes = 0
    /\ buf = <<>>

====
